---- MODULE Spec2Model ----
(***************************************************************************)
(* Hot-reloading extension host of B055Bot (src/src/bot.py) together with  *)
(* the operator's reload command (src/src/modules/admin.py).               *)
(*                                                                         *)
(* Two tasks run on one cooperative event loop: the periodic detection     *)
(* cycle check_modules and the command handler Admin.reload.  A task runs  *)
(* until it reaches an await; every await of load_extension,               *)
(* unload_extension or reload_extension is a point where the other task    *)
(* may run, and so is the await of an extension's cog_load / cog_unload    *)
(* hook inside those calls.  The code between two such points is one       *)
(* atomic action.  The file system (the modules directory) and the clock   *)
(* change independently of both tasks.                                     *)
(***************************************************************************)
EXTENDS FiniteSets, Integers, Sequences, TLC

\* ------------------------------------------------------------------ bounds
\* The wall clock (time.time(), os.path.getmtime) counts ticks 1..MaxTime.
MaxTime == 2
\* Number of disturbances in a run: changes of the modules directory (add,
\* remove, touch), extension code raising (constructor, cog_load) and
\* operator reload commands.
MaxEvents == 3

\* Bot processes the supervisor starts.
MaxRuns == 4

\* ------------------------------------------------------- program constants
\* Source files of src/src/modules, by stem.
Stems == {"admin", "slash"}

\* The id property of the module class each source file defines.
ModuleId(s) == IF s = "admin" THEN "admin" ELSE "test_commands"

\* Every name an operator may pass to the reload command.
Names == Stems \cup {ModuleId(s) : s \in Stems}

\* B055Bot.__init__: self.last_module_check = 0
InitialBaseline == 0

\* Configurations (modules.enabled, modules.disabled) the host is started with.
Configs ==
    { [enabled |-> {"admin"}, disabled |-> {}],
      [enabled |-> {},        disabled |-> {"admin"}],
      [enabled |-> {},        disabled |-> {"test_commands"}] }

NoOp == [kind |-> "none", name |-> "none", at |-> "none"]

VARIABLES
    \* environment
    files,              \* stems s with a file s.py in the modules directory
    mtime,              \* modification time of each present file (0 if absent)
    now,                \* wall clock
    config,             \* the loaded configuration
    \* B055Bot
    modules,            \* self.modules: module id -> stem whose class was stored
    loaded_modules,     \* self.loaded_modules
    last_module_check,  \* self.last_module_check
    extensions,         \* commands.Bot extension table (loaded extension names)
    cogs,               \* command surface: stems whose cog is registered
    \* detection task (setup_hook + check_modules)
    cpc,                \* "boot","autoload","waiting","idle","load","unload",
                        \* "reload","cancelled"
    current_modules,    \* scan result of the running cycle
    ctodo,              \* ids the running loop has still to visit
    cop,                \* extension operation suspended in the task
    \* command task (Admin.reload)
    kpc,                \* "idle","single","all","replied"
    ktodo,              \* module ids reload-all has still to visit
    kop,                \* extension operation suspended in the command
    counts,             \* [ok, err]: success_count, error_count
    reply,              \* result being sent to the operator
    \* observation of the running / last cycle and budgets
    h,
    settled,            \* per stem: "no", or how a cycle last examined the file
                        \* unmodified since: "seen" (left alone), "reloaded"
    budget,             \* disturbances so far
    \* host lifecycle
    life,               \* "setup","connecting","ready","closing","closed"
    g,                  \* observation across cycles and of the running command
    \* the modules directory as the scan reads it, and the supervisor
    modules_dir,        \* TRUE iff the directory src/modules exists
    listing,            \* os.listdir: entry names, each a sequence of characters
    sup                 \* run.py: the supervisor and the bot process it runs

vars == << files, mtime, now, config, modules, loaded_modules, last_module_check,
           extensions, cogs, cpc, current_modules, ctodo, cop,
           kpc, ktodo, kop, counts, reply, h, settled, budget, life, g,
           modules_dir, listing, sup >>

envVars == << files, mtime, now, config >>
hostVars == << modules_dir, listing, sup >>
botVars == << modules, loaded_modules, last_module_check, extensions, cogs >>
cycVars == << cpc, current_modules, ctodo, cop >>
cmdVars == << kpc, ktodo, kop, counts, reply >>

\* ------------------------------------------------------------- observation
NoHistory ==
    [ startLoaded |-> {},      \* loaded_modules when the cycle started
      didLoad |-> {}, didUnload |-> {}, didReload |-> {},
      rLoad |-> {}, rUnload |-> {}, rReload |-> {},
      again |-> {} ]           \* reloaded twice in the cycle, or reloaded while settled

\* The supervisor is not running: the bot was started directly.
NoSupervisor == [pc |-> "none"]

\* What is remembered beyond one cycle, and of the running command:
\*   aborted = the extension call the detection task was suspended in when
\*             the task was cancelled;
\*   known   = list(self.bot.modules.keys()) taken by reload-all;
\*   ok, err = names whose reload_extension returned / raised in the command;
\*   loadFailed, reloadFailed = ids whose load / reload raised in the last
\*             startup or cycle that ended;
\*   notLoaded = ids the running cycle asked to reload while their extension
\*             was not in the extension table (the unload step cannot be done);
\*   written = loaded ids whose source was written since a cycle last called
\*             reload_extension for them.
NoRecord ==
    [ aborted |-> NoOp, known |-> {}, ok |-> {}, err |-> {},
      loadFailed |-> {}, reloadFailed |-> {}, notLoaded |-> {}, written |-> {} ]

\* -------------------------------------------------- extension operations
\* State of the extension machinery the operations below transform:
\*   ext  = loaded extension names, cogs = registered cogs, mods = self.modules.
Lib == [ext |-> extensions, cogs |-> cogs, mods |-> modules]

Put(mods, k, s) ==
    [x \in (DOMAIN mods) \cup {k} |-> IF x = k THEN s ELSE mods[x]]

\* The extension table and the command surface after a failed setup:
\* every cog of the extension is removed and the extension is forgotten.
Cleanup(L, n) == [L EXCEPT !.ext = @ \ {n}, !.cogs = @ \ {n}]

\* add_module: the handle is stored under module.id, then add_cog is awaited.
\* add_cog refuses a cog whose name is already registered.
AddModuleBegin(L, s) ==
    LET L1 == [L EXCEPT !.mods = Put(@, ModuleId(s), s)]
    IN  IF s \in L.cogs
        THEN [L |-> L1, out |-> "raised", used |-> 0]
        ELSE [L |-> L1, out |-> "suspended", used |-> 0]

\* setup(bot) of the extension of file s up to its first suspension: the
\* module object is constructed (fault: the constructor raises) and handed
\* to add_module.  used counts the faults the step consumed.
SetupBegin(L, s, fault) ==
    IF fault = "raise"
    THEN [L |-> L, out |-> "raised", used |-> 1]
    ELSE AddModuleBegin(L, s)

\* add_cog after cog_load returned (fault: cog_load raised).  Registering the
\* cog's commands fails when a cog of the same extension was registered in
\* the meantime.
AddCogResume(L, s, fault) ==
    IF fault = "raise"
    THEN [L |-> L, out |-> "raised", used |-> 1]
    ELSE IF s \in L.cogs
         THEN [L |-> L, out |-> "raised", used |-> 0]
         ELSE [L |-> [L EXCEPT !.cogs = @ \cup {s}], out |-> "ok", used |-> 0]

\* load_extension(src.modules.n) up to its first suspension.
LoadBegin(L, n, fault) ==
    IF n \in L.ext \/ n \notin files
    THEN [L |-> L, out |-> "raised", used |-> 0]
    ELSE LET r == SetupBegin(L, n, fault)
         IN  IF r.out = "raised"
             THEN [r EXCEPT !.L = Cleanup(r.L, n)]
             ELSE r

\* load_extension resumed after cog_load.
LoadResume(L, n, fault) ==
    LET r == AddCogResume(L, n, fault)
    IN  IF r.out = "raised"
        THEN [r EXCEPT !.L = Cleanup(r.L, n)]
        ELSE [r EXCEPT !.L = [r.L EXCEPT !.ext = @ \cup {n}]]

\* unload_extension(src.modules.n) up to its first suspension: the cog is
\* taken off the command surface and its cog_unload is awaited.
UnloadBegin(L, n) ==
    IF n \notin L.ext
    THEN [L |-> L, out |-> "raised", used |-> 0]
    ELSE IF n \in L.cogs
         THEN [L |-> [L EXCEPT !.cogs = @ \ {n}], out |-> "suspended", used |-> 0]
         ELSE [L |-> [L EXCEPT !.ext = @ \ {n}], out |-> "ok", used |-> 0]

\* An unload that leaves the extension in the extension table.
UnloadResumeKeepsExtension(L, n) == [L |-> L, out |-> "ok", used |-> 0]

\* unload_extension resumed after cog_unload: the extension is forgotten.
UnloadResume(L, n) ==
    [L |-> [L EXCEPT !.ext = @ \ {n}], out |-> "ok", used |-> 0]

\* The except branch of reload_extension, entered after a step that consumed
\* `before` faults: setup of the previously loaded module is run again;
\* whatever it does, the error is raised to the caller.
RollbackBegin(L, n, fault, before) ==
    LET r == SetupBegin(L, n, fault)
    IN  [L |-> r.L,
         out |-> IF r.out = "raised" THEN "raised" ELSE "rollback",
         used |-> before + r.used]

RollbackResume(L, n, fault) ==
    LET r == AddCogResume(L, n, fault)
    IN  IF r.out = "raised"
        THEN r
        ELSE [L |-> [r.L EXCEPT !.ext = @ \cup {n}], out |-> "raised", used |-> r.used]

\* reload_extension after the old extension was removed: load it again, and
\* on failure fall back to the old module.
ReloadLoad(L, n, fault, fault2) ==
    LET r == LoadBegin([L EXCEPT !.ext = @ \ {n}], n, fault)
    IN  IF r.out = "raised"
        THEN RollbackBegin(r.L, n, fault2, r.used)
        ELSE r

\* reload_extension(src.modules.n) up to its first suspension.
ReloadBegin(L, n, fault, fault2) ==
    IF n \notin L.ext
    THEN [L |-> L, out |-> "raised", used |-> 0]
    ELSE IF n \in L.cogs
         THEN [L |-> [L EXCEPT !.cogs = @ \ {n}], out |-> "unloading", used |-> 0]
         ELSE ReloadLoad(L, n, fault, fault2)

\* reload_extension resumed after the cog_load of the new module.
ReloadLoadResume(L, n, fault, fault2) ==
    LET r == LoadResume(L, n, fault)
    IN  IF r.out = "raised"
        THEN RollbackBegin(r.L, n, fault2, r.used)
        ELSE r

\* One resumption of a suspended operation op.
Resume(L, op, fault, fault2) ==
    CASE op.kind = "load"                          -> LoadResume(L, op.name, fault)
      [] op.kind = "unload"                        -> UnloadResume(L, op.name)
      [] op.kind = "reload" /\ op.at = "unloading" -> ReloadLoad(L, op.name, fault, fault2)
      [] op.kind = "reload" /\ op.at = "suspended" -> ReloadLoadResume(L, op.name, fault, fault2)
      [] op.kind = "reload" /\ op.at = "rollback"  -> RollbackResume(L, op.name, fault)

Suspended(out) == out \in {"suspended", "unloading", "rollback"}

\* The record after reload_extension(name) ended with outcome out.
Noted(name, out) ==
    IF Suspended(out) THEN g
    ELSE IF out = "ok" THEN [g EXCEPT !.ok = @ \cup {name}]
    ELSE [g EXCEPT !.err = @ \cup {name}]

\* The operation left suspended by a step with outcome out.
OpAfter(kind, n, out) ==
    IF Suspended(out) THEN [kind |-> kind, name |-> n, at |-> out] ELSE NoOp

Faults == {"none", "raise"}

SetLib(L) ==
    /\ extensions' = L.ext
    /\ cogs' = L.cogs
    /\ modules' = L.mods

\* ------------------------------------------------------------ environment
Init ==
    /\ files \in SUBSET Stems
    /\ mtime = [s \in Stems |-> IF s \in files THEN 1 ELSE 0]
    /\ now = 1
    /\ config \in Configs
    /\ modules = [x \in {} |-> "none"]
    /\ loaded_modules = {}
    /\ last_module_check = InitialBaseline
    /\ extensions = {}
    /\ cogs = {}
    /\ cpc = "boot"
    /\ current_modules = {}
    /\ ctodo = {}
    /\ cop = NoOp
    /\ kpc = "idle"
    /\ ktodo = {}
    /\ kop = NoOp
    /\ counts = [ok |-> 0, err |-> 0]
    /\ reply = <<"none">>
    /\ h = NoHistory
    /\ settled = [s \in Stems |-> "no"]
    /\ budget = 0
    /\ life = "setup"
    /\ g = NoRecord
    /\ modules_dir = TRUE
    /\ listing = {}
    /\ sup = NoSupervisor

\* The clock advances.
Tick ==
    /\ life # "closed"
    /\ now < MaxTime
    /\ now' = now + 1
    /\ UNCHANGED << hostVars, life, g, files, mtime, config, botVars, cycVars, cmdVars, h, settled, budget >>

FsEvent ==
    /\ life # "closed"
    /\ budget < MaxEvents
    /\ budget' = budget + 1

\* A module file is written again.
Touch(s) ==
    /\ s \in files
    /\ FsEvent
    /\ mtime' = [mtime EXCEPT ![s] = now]
    /\ settled' = [settled EXCEPT ![s] = "no"]
    /\ UNCHANGED << hostVars, life, g, files, now, config, botVars, cycVars, cmdVars, h >>

\* A module file appears in the directory.
AddFile(s) ==
    /\ s \notin files
    /\ FsEvent
    /\ files' = files \cup {s}
    /\ mtime' = [mtime EXCEPT ![s] = now]
    /\ settled' = [settled EXCEPT ![s] = "no"]
    /\ UNCHANGED << hostVars, life, g, now, config, botVars, cycVars, cmdVars, h >>

\* A module file is deleted.
RemoveFile(s) ==
    /\ s \in files
    /\ FsEvent
    /\ files' = files \ {s}
    /\ mtime' = [mtime EXCEPT ![s] = 0]
    /\ settled' = [settled EXCEPT ![s] = "no"]
    /\ UNCHANGED << hostVars, life, g, now, config, botVars, cycVars, cmdVars, h >>

\* --------------------------------------------------------------- scanning
\* get_module_files: the stems of the *.py files not starting with "_".
\* Where the behaviour of the host is examined, the directory exists and is
\* given by the ids its entries yield (files); the scan itself is examined
\* name by name below, on listing.
get_module_files == files

\* f.endswith(suffix), f.startswith(prefix) and f[:-3] on names.
EndsWith(f, suffix) ==
    /\ Len(f) >= Len(suffix)
    /\ SubSeq(f, Len(f) - Len(suffix) + 1, Len(f)) = suffix

StartsWith(f, prefix) ==
    /\ Len(f) >= Len(prefix)
    /\ SubSeq(f, 1, Len(prefix)) = prefix

StripSuffix(f) == SubSeq(f, 1, Len(f) - 3)

PySuffix == <<".", "p", "y">>

\* Entry names a modules directory may hold: a.py, b.py, _a.py, a.pyc, a.txt,
\* .py, a and py.
EntryPool ==
    { <<"a", ".", "p", "y">>, <<"b", ".", "p", "y">>,
      <<"_", "a", ".", "p", "y">>, <<"a", ".", "p", "y", "c">>,
      <<"a", ".", "t", "x", "t">>, PySuffix, <<"a">>, <<"p", "y">> }

\* A scan that does not skip the names starting with an underscore.
ScanListingNoUnderscore(exists, entries) ==
    IF ~exists THEN {}
    ELSE { StripSuffix(f) : f \in { e \in entries : EndsWith(e, PySuffix) } }

\* The set get_module_files returns for a directory with the given entries.
ScanListing(exists, entries) ==
    IF ~exists THEN {}
    ELSE { StripSuffix(f) :
             f \in { e \in entries : EndsWith(e, PySuffix) /\ ~StartsWith(e, <<"_">>) } }

\* A scan that does not create a missing directory.
DirAfterScanNoCreate(exists) == exists

\* os.makedirs(modules_dir) when the directory is missing.
DirAfterScan(exists) == TRUE

\* A policy that consults the allow-list before the deny-list.
enabledAllowFirst(id) ==
    IF config.enabled # {} /\ id \in config.enabled THEN TRUE
    ELSE IF id \in config.disabled THEN FALSE
    ELSE config.enabled = {}

\* ModuleBase.enabled for a module with the given id.
enabled(id) ==
    IF id \in config.disabled THEN FALSE
    ELSE IF config.enabled = {} \/ id \in config.enabled THEN TRUE
    ELSE FALSE

\* A comparison that also counts a file stamped exactly at the baseline.
IsModifiedInclusive(mod_time, baseline) == mod_time >= baseline

\* mod_time > self.last_module_check
IsModified(mod_time, baseline) == mod_time > baseline

\* Extension code may raise while the budget of disturbances lasts.
Spend(used) ==
    /\ budget + used <= MaxEvents
    /\ budget' = budget + used

\* The record when a startup or a cycle ends: what raised in it is kept.
Carry ==
    [g EXCEPT !.loadFailed = h.rLoad, !.reloadFailed = h.rReload, !.notLoaded = {}]

\* A scan that leaves out the ids whose load raised before.
modules_to_load_once(current, loaded) == (current \ loaded) \ g.loadFailed

\* modules_to_load = current_modules - self.loaded_modules
modules_to_load(current, loaded) == current \ loaded

\* ------------------------------------------------------------- scheduling
\* One task runs at a time.  The detection task lets the command task run
\* while it sleeps between cycles or is suspended inside an extension
\* operation; the command task lets the detection task run while no command
\* is executing, while it is suspended inside reload_extension, or while it
\* awaits ctx.send.
CycleYields ==
    /\ life # "closed"
    /\ cpc \in {"waiting", "idle", "cancelled"} \/ cop # NoOp

CmdYields == kpc \in {"idle", "replied"} \/ kop # NoOp

\* --------------------------------------------- startup and detection cycle
\* The body shared by the loading loops of auto_load_modules and
\* check_modules: one iteration up to the first suspension of load_extension.
LoadLoopBegin(pc) ==
    /\ cpc = pc
    /\ CmdYields
    /\ cop = NoOp
    /\ \E s \in ctodo, fault \in Faults :
         LET r == LoadBegin(Lib, s, fault) IN
         /\ Spend(r.used)
         /\ SetLib(r.L)
         /\ ctodo' = ctodo \ {s}
         /\ cop' = OpAfter("load", s, r.out)
         /\ h' = [h EXCEPT !.didLoad = @ \cup {s},
                           !.rLoad = IF r.out = "raised" THEN @ \cup {s} ELSE @]
    /\ UNCHANGED << hostVars, life, g, envVars, loaded_modules, last_module_check, cpc, current_modules,
                    cmdVars, settled >>

\* load_extension resumed; on success the id joins loaded_modules, an
\* exception is logged.
LoadLoopResume(pc) ==
    /\ cpc = pc
    /\ CmdYields
    /\ cop.kind = "load"
    /\ \E fault \in Faults :
         LET r == Resume(Lib, cop, fault, "none") IN
         /\ Spend(r.used)
         /\ SetLib(r.L)
         /\ loaded_modules' = IF r.out = "ok" THEN loaded_modules \cup {cop.name}
                                              ELSE loaded_modules
         /\ h' = [h EXCEPT !.rLoad = IF r.out = "raised" THEN @ \cup {cop.name} ELSE @]
    /\ cop' = NoOp
    /\ UNCHANGED << hostVars, life, g, envVars, last_module_check, cpc, current_modules, ctodo,
                    cmdVars, settled >>

\* setup_hook calls auto_load_modules, which scans the directory.
AutoLoadStart ==
    /\ cpc = "boot"
    /\ cpc' = "autoload"
    /\ current_modules' = get_module_files
    /\ ctodo' = get_module_files
    /\ UNCHANGED << hostVars, life, g, envVars, botVars, cop, cmdVars, h, settled, budget >>

AutoLoadBegin == LoadLoopBegin("autoload")

AutoLoadResume == LoadLoopResume("autoload")

\* auto_load_modules returns and the loop is started: its task waits in
\* before_check_modules while the host connects.
SetupDone ==
    /\ cpc = "autoload"
    /\ ctodo = {}
    /\ cop = NoOp
    /\ cpc' = "waiting"
    /\ life' = "connecting"
    /\ h' = NoHistory
    /\ g' = Carry
    /\ current_modules' = {}
    /\ UNCHANGED << hostVars, envVars, botVars, ctodo, cop, cmdVars, settled, budget >>

\* The host signals readiness: wait_until_ready returns in
\* before_check_modules and the loop may run its first iteration.
Ready ==
    /\ life = "connecting"
    /\ cpc = "waiting"
    /\ life' = "ready"
    /\ cpc' = "idle"
    /\ UNCHANGED << hostVars, g, envVars, botVars, current_modules, ctodo, cop, cmdVars, h,
                    settled, budget >>

\* check_modules starts: scan, and the ids to load.
CycleStart ==
    /\ cpc = "idle"
    /\ CmdYields
    /\ cpc' = "load"
    /\ current_modules' = get_module_files
    /\ ctodo' = modules_to_load(get_module_files, loaded_modules)
    /\ h' = [NoHistory EXCEPT !.startLoaded = loaded_modules]
    /\ UNCHANGED << hostVars, life, g, envVars, botVars, cop, cmdVars, settled, budget >>

CycleLoadBegin == LoadLoopBegin("load")

CycleLoadResume == LoadLoopResume("load")

\* The loading loop is over: the ids to unload.
CycleLoadDone ==
    /\ cpc = "load"
    /\ CmdYields
    /\ ctodo = {}
    /\ cop = NoOp
    /\ cpc' = "unload"
    /\ ctodo' = loaded_modules \ current_modules
    /\ UNCHANGED << hostVars, life, g, envVars, botVars, current_modules, cop, cmdVars, h, settled, budget >>

\* One iteration of the unloading loop up to the first suspension of
\* unload_extension; the id leaves loaded_modules after the call returned.
CycleUnloadBegin ==
    /\ cpc = "unload"
    /\ CmdYields
    /\ cop = NoOp
    /\ \E s \in ctodo :
         LET r == UnloadBegin(Lib, s) IN
         /\ SetLib(r.L)
         /\ ctodo' = ctodo \ {s}
         /\ cop' = OpAfter("unload", s, r.out)
         /\ loaded_modules' = IF r.out = "ok" THEN loaded_modules \ {s}
                                              ELSE loaded_modules
         /\ h' = [h EXCEPT !.didUnload = @ \cup {s},
                           !.rUnload = IF r.out = "raised" THEN @ \cup {s} ELSE @]
    /\ UNCHANGED << hostVars, life, g, envVars, last_module_check, cpc, current_modules, cmdVars,
                    settled, budget >>

CycleUnloadResume ==
    /\ cpc = "unload"
    /\ CmdYields
    /\ cop.kind = "unload"
    /\ LET r == Resume(Lib, cop, "none", "none") IN
         /\ SetLib(r.L)
         /\ loaded_modules' = loaded_modules \ {cop.name}
    /\ cop' = NoOp
    /\ UNCHANGED << hostVars, life, g, envVars, last_module_check, cpc, current_modules, ctodo,
                    cmdVars, h, settled, budget >>

\* The unloading loop is over: the ids to examine for modification.
CycleUnloadDone ==
    /\ cpc = "unload"
    /\ CmdYields
    /\ ctodo = {}
    /\ cop = NoOp
    /\ cpc' = "reload"
    /\ ctodo' = current_modules \cap loaded_modules
    /\ UNCHANGED << hostVars, life, g, envVars, botVars, current_modules, cop, cmdVars, h, settled, budget >>

\* One iteration of the reloading loop: the file is looked up, its
\* modification time compared with the baseline, and reload_extension run
\* up to its first suspension.
CycleReloadBegin ==
    /\ cpc = "reload"
    /\ CmdYields
    /\ cop = NoOp
    /\ \E s \in ctodo, fault \in Faults, fault2 \in Faults :
         /\ ctodo' = ctodo \ {s}
         /\ IF s \in files /\ IsModified(mtime[s], last_module_check)
            THEN LET r == ReloadBegin(Lib, s, fault, fault2) IN
                 /\ Spend(r.used)
                 /\ SetLib(r.L)
                 /\ cop' = OpAfter("reload", s, r.out)
                 /\ settled' = [settled EXCEPT ![s] = "reloaded"]
                 /\ g' = [g EXCEPT
                            !.notLoaded = IF s \in extensions THEN @ ELSE @ \cup {s},
                            !.written = @ \ {s}]
                 /\ h' = [h EXCEPT
                            !.didReload = @ \cup {s},
                            !.again = IF settled[s] # "no" \/ s \in h.didReload
                                      THEN @ \cup {s} ELSE @,
                            !.rReload = IF r.out = "raised" THEN @ \cup {s} ELSE @]
            ELSE /\ settled' = IF s \in files /\ settled[s] = "no"
                               THEN [settled EXCEPT ![s] = "seen"] ELSE settled
                 /\ UNCHANGED << modules, extensions, cogs, cop, h, budget, g >>
    /\ UNCHANGED << hostVars, life, envVars, loaded_modules, last_module_check, cpc, current_modules,
                    cmdVars >>

CycleReloadResume ==
    /\ cpc = "reload"
    /\ CmdYields
    /\ cop.kind = "reload"
    /\ \E fault \in Faults, fault2 \in Faults :
         LET r == Resume(Lib, cop, fault, fault2) IN
         /\ Spend(r.used)
         /\ SetLib(r.L)
         /\ cop' = OpAfter("reload", cop.name, r.out)
         /\ h' = [h EXCEPT !.rReload = IF r.out = "raised" THEN @ \cup {cop.name} ELSE @]
    /\ UNCHANGED << hostVars, life, g, envVars, loaded_modules, last_module_check, cpc, current_modules,
                    ctodo, cmdVars, settled >>

\* The file of an id of the reloading loop is there when os.path.exists looks
\* and gone when os.path.getmtime reads it: the error is raised outside the
\* try of the loop body and is caught by the handler of the whole cycle,
\* which logs it.  The iteration is over; the baseline is not assigned.
CycleStatRaises ==
    /\ cpc = "reload"
    /\ CmdYields
    /\ cop = NoOp
    /\ \E s \in ctodo :
         /\ s \in files
         /\ FsEvent
         /\ files' = files \ {s}
         /\ mtime' = [mtime EXCEPT ![s] = 0]
         /\ settled' = [settled EXCEPT ![s] = "no"]
    /\ cpc' = "idle"
    /\ ctodo' = {}
    /\ current_modules' = {}
    /\ h' = NoHistory
    /\ g' = Carry
    /\ UNCHANGED << hostVars, life, now, config, botVars, cop, cmdVars >>

\* The cycle records its completion time as the new baseline.
CycleFinish ==
    /\ cpc = "reload"
    /\ CmdYields
    /\ ctodo = {}
    /\ cop = NoOp
    /\ cpc' = "idle"
    /\ last_module_check' = now
    /\ h' = NoHistory
    /\ g' = Carry
    /\ current_modules' = {}
    /\ UNCHANGED << hostVars, life, envVars, modules, loaded_modules, extensions, cogs,
                    ctodo, cop, cmdVars, settled, budget >>

\* ------------------------------------------------------ operator command
\* The reload command can be invoked once the bot is ready, while the Admin
\* cog is on the command surface and passes cog_check.
CanCommand ==
    /\ life = "ready"
    /\ CycleYields
    /\ kpc = "idle"
    /\ "admin" \in cogs
    /\ enabled(ModuleId("admin"))
    /\ budget < MaxEvents

\* reload <name> with a name self.modules does not hold.
CmdNotFound ==
    /\ CanCommand
    /\ \E name \in Names :
         /\ name \notin DOMAIN modules
         /\ reply' = <<"not_found", name>>
    /\ kpc' = "replied"
    /\ budget' = budget + 1
    /\ UNCHANGED << hostVars, life, g, envVars, botVars, cycVars, ktodo, kop, counts, h, settled >>

\* A handler that drops a name from loaded_modules when its reload raised.
SingleOutcomeDropsFailed(name, r) ==
    /\ SetLib(r.L)
    /\ g' = Noted(name, r.out)
    /\ kop' = OpAfter("reload", name, r.out)
    /\ kpc' = IF Suspended(r.out) THEN "single" ELSE "replied"
    /\ reply' = IF Suspended(r.out) THEN reply
                ELSE IF r.out = "ok" THEN <<"success", name>> ELSE <<"error", name>>
    /\ loaded_modules' = IF r.out = "raised" THEN loaded_modules \ {name}
                                              ELSE loaded_modules
    /\ UNCHANGED last_module_check

\* What the single-module path does with the outcome of reload_extension:
\* it replies, and assigns neither loaded_modules nor last_module_check.
SingleOutcome(name, r) ==
    /\ SetLib(r.L)
    /\ g' = Noted(name, r.out)
    /\ kop' = OpAfter("reload", name, r.out)
    /\ kpc' = IF Suspended(r.out) THEN "single" ELSE "replied"
    /\ reply' = IF Suspended(r.out) THEN reply
                ELSE IF r.out = "ok" THEN <<"success", name>> ELSE <<"error", name>>
    /\ UNCHANGED << loaded_modules, last_module_check >>

\* reload <name> with a name self.modules holds: reload_extension is run up
\* to its first suspension.
CmdSingleBegin ==
    /\ CanCommand
    /\ \E name \in DOMAIN modules, fault \in Faults, fault2 \in Faults :
         LET r == ReloadBegin(Lib, name, fault, fault2) IN
         /\ Spend(1 + r.used)
         /\ SingleOutcome(name, r)
    /\ UNCHANGED << hostVars, life, envVars, cycVars, ktodo, counts, h, settled >>

CmdSingleResume ==
    /\ kpc = "single"
    /\ CycleYields
    /\ \E fault \in Faults, fault2 \in Faults :
         LET r == Resume(Lib, kop, fault, fault2) IN
         /\ Spend(r.used)
         /\ SingleOutcome(kop.name, r)
    /\ UNCHANGED << hostVars, life, envVars, cycVars, ktodo, counts, h, settled >>

\* reload without a name: the keys of self.modules are listed.
CmdAllStart ==
    /\ CanCommand
    /\ kpc' = "all"
    /\ ktodo' = DOMAIN modules
    /\ g' = [g EXCEPT !.known = DOMAIN modules]
    /\ counts' = [ok |-> 0, err |-> 0]
    /\ budget' = budget + 1
    /\ UNCHANGED << hostVars, life, envVars, botVars, cycVars, kop, reply, h, settled >>

\* A loop that logs a failing reload without counting it.
AllOutcomeUncounted(name, r) ==
    /\ SetLib(r.L)
    /\ g' = Noted(name, r.out)
    /\ kop' = OpAfter("reload", name, r.out)
    /\ counts' = IF r.out = "ok" THEN [counts EXCEPT !.ok = @ + 1] ELSE counts
    /\ UNCHANGED << loaded_modules, last_module_check >>

\* What the reload-all loop does with the outcome of reload_extension: it
\* counts, and assigns neither loaded_modules nor last_module_check.
AllOutcome(name, r) ==
    /\ SetLib(r.L)
    /\ g' = Noted(name, r.out)
    /\ kop' = OpAfter("reload", name, r.out)
    /\ counts' = IF Suspended(r.out) THEN counts
                 ELSE IF r.out = "ok" THEN [counts EXCEPT !.ok = @ + 1]
                 ELSE [counts EXCEPT !.err = @ + 1]
    /\ UNCHANGED << loaded_modules, last_module_check >>

CmdAllBegin ==
    /\ kpc = "all"
    /\ CycleYields
    /\ kop = NoOp
    /\ \E id \in ktodo, fault \in Faults, fault2 \in Faults :
         LET r == ReloadBegin(Lib, id, fault, fault2) IN
         /\ Spend(r.used)
         /\ ktodo' = ktodo \ {id}
         /\ AllOutcome(id, r)
    /\ UNCHANGED << hostVars, life, envVars, cycVars, kpc, reply, h, settled >>

CmdAllResume ==
    /\ kpc = "all"
    /\ CycleYields
    /\ kop # NoOp
    /\ \E fault \in Faults, fault2 \in Faults :
         LET r == Resume(Lib, kop, fault, fault2) IN
         /\ Spend(r.used)
         /\ AllOutcome(kop.name, r)
    /\ UNCHANGED << hostVars, life, envVars, cycVars, kpc, ktodo, reply, h, settled >>

\* The loop is over: the counts are sent.
CmdAllDone ==
    /\ kpc = "all"
    /\ CycleYields
    /\ ktodo = {}
    /\ kop = NoOp
    /\ kpc' = "replied"
    /\ reply' = <<"complete", counts.ok, counts.err>>
    /\ UNCHANGED << hostVars, life, g, envVars, botVars, cycVars, ktodo, kop, counts, h, settled, budget >>

\* ctx.send returned: the command handler is over.
CmdReturn ==
    /\ kpc = "replied"
    /\ CycleYields
    /\ kpc' = "idle"
    /\ reply' = <<"none">>
    /\ counts' = [ok |-> 0, err |-> 0]
    /\ g' = [g EXCEPT !.known = {}, !.ok = {}, !.err = {}]
    /\ UNCHANGED << hostVars, life, envVars, botVars, cycVars, ktodo, kop, h, settled, budget >>

\* ---------------------------------------------------------------- shutdown
\* A loop task that keeps running an iteration it has begun and is stopped
\* only while it waits.
StopTask(pc) == IF pc \in {"waiting", "idle"} THEN "cancelled" ELSE pc

\* self.check_modules.cancel(): the loop task is cancelled wherever it is.
CancelTask(pc) == "cancelled"

\* close() up to its await: the loop task is cancelled.  The cancellation is
\* delivered at the await the task is suspended in, is not an Exception, and
\* so passes every handler of check_modules: the extension call in flight is
\* abandoned where it was suspended.  close() is run by the shutdown command
\* or by main() while the other tasks are suspended.
CloseCancel ==
    /\ life \in {"connecting", "ready"}
    /\ CycleYields
    /\ CmdYields
    /\ budget < MaxEvents
    /\ budget' = budget + 1
    /\ life' = "closing"
    /\ cpc' = CancelTask(cpc)
    /\ cop' = IF CancelTask(cpc) = "cancelled" THEN NoOp ELSE cop
    /\ g' = [g EXCEPT !.aborted = IF CancelTask(cpc) = "cancelled" THEN cop ELSE @]
    /\ UNCHANGED << hostVars, envVars, botVars, current_modules, ctodo, cmdVars, h, settled >>

\* await super().close(): the host unloads every extension, removes every
\* cog and disconnects; nothing runs afterwards.
CloseSuper ==
    /\ life = "closing"
    /\ CmdYields
    /\ CycleYields
    /\ life' = "closed"
    /\ extensions' = {}
    /\ cogs' = {}
    /\ UNCHANGED << hostVars, g, envVars, modules, loaded_modules, last_module_check, cycVars,
                    cmdVars, h, settled, budget >>

\* ---------------------------------------------------------- specification
Environment ==
    \/ Tick
    \/ \E s \in Stems : Touch(s)
    \/ \E s \in Stems : AddFile(s)
    \/ \E s \in Stems : RemoveFile(s)

Startup ==
    \/ AutoLoadStart
    \/ AutoLoadBegin
    \/ AutoLoadResume
    \/ SetupDone
    \/ Ready

Shutdown ==
    \/ CloseCancel
    \/ CloseSuper

Cycle ==
    \/ CycleStart
    \/ CycleLoadBegin
    \/ CycleLoadResume
    \/ CycleLoadDone
    \/ CycleUnloadBegin
    \/ CycleUnloadResume
    \/ CycleUnloadDone
    \/ CycleReloadBegin
    \/ CycleReloadResume
    \/ CycleStatRaises
    \/ CycleFinish

Command ==
    \/ CmdNotFound
    \/ CmdSingleBegin
    \/ CmdSingleResume
    \/ CmdAllStart
    \/ CmdAllBegin
    \/ CmdAllResume
    \/ CmdAllDone
    \/ CmdReturn

\* ------------------------------------------------------ enablement policy
\* Every pair of modules.enabled / modules.disabled lists over the known names.
PolicyConfigs == [enabled : SUBSET Names, disabled : SUBSET Names]

\* A host that has loaded nothing, under any configuration.
InitPolicy ==
    /\ files = {}
    /\ mtime = [s \in Stems |-> 0]
    /\ now = 1
    /\ config \in PolicyConfigs
    /\ modules = [x \in {} |-> "none"]
    /\ loaded_modules = {}
    /\ last_module_check = InitialBaseline
    /\ extensions = {}
    /\ cogs = {}
    /\ cpc = "boot"
    /\ current_modules = {}
    /\ ctodo = {}
    /\ cop = NoOp
    /\ kpc = "idle"
    /\ ktodo = {}
    /\ kop = NoOp
    /\ counts = [ok |-> 0, err |-> 0]
    /\ reply = <<"none">>
    /\ h = NoHistory
    /\ settled = [s \in Stems |-> "no"]
    /\ budget = 0
    /\ life = "setup"
    /\ g = NoRecord
    /\ modules_dir = TRUE
    /\ listing = {}
    /\ sup = NoSupervisor

\* cog_check of the module with the given id: the answer is self.enabled.
cog_check(id) ==
    /\ reply' = <<"check", id, enabled(id)>>
    /\ UNCHANGED << hostVars, envVars, botVars, cycVars, kpc, ktodo, kop, counts, h, settled,
                    budget, life, g >>

NextPolicy == \E id \in Names : cog_check(id)

SpecPolicy == InitPolicy /\ [][NextPolicy]_vars

\* Config.set("modules.enabled" | "modules.disabled", value): the list under
\* the key is replaced in self.config_data, which is then saved.
config_set(key, value) ==
    /\ config' = [config EXCEPT ![key] = value]
    /\ UNCHANGED << hostVars, files, mtime, now, botVars, cycVars, cmdVars, h, settled,
                    budget, life, g >>

\* Config.reload: self.config_data becomes what the file holds now, which an
\* operator may have edited since it was last read.
config_reload ==
    /\ config' \in PolicyConfigs
    /\ UNCHANGED << hostVars, files, mtime, now, botVars, cycVars, cmdVars, h, settled,
                    budget, life, g >>

\* The policy is asked while the configuration is changed underneath it.
NextConfig ==
    \/ \E id \in Names : cog_check(id)
    \/ \E key \in {"enabled", "disabled"}, value \in SUBSET Names : config_set(key, value)
    \/ config_reload

SpecConfig == InitPolicy /\ [][NextConfig]_vars

\* ------------------------------------------------------------ directory scan
\* A host with any loaded-id set and baseline, next to a directory that is
\* missing or holds any entries of the pool.
InitScan ==
    /\ files = {}
    /\ mtime = [s \in Stems |-> 0]
    /\ now = 1
    /\ config \in Configs
    /\ modules = [x \in {} |-> "none"]
    /\ loaded_modules \in SUBSET Stems
    /\ last_module_check \in {InitialBaseline, 1}
    /\ extensions = loaded_modules
    /\ cogs = loaded_modules
    /\ cpc = "idle"
    /\ current_modules = {}
    /\ ctodo = {}
    /\ cop = NoOp
    /\ kpc = "idle"
    /\ ktodo = {}
    /\ kop = NoOp
    /\ counts = [ok |-> 0, err |-> 0]
    /\ reply = <<"none">>
    /\ h = NoHistory
    /\ settled = [s \in Stems |-> "no"]
    /\ budget = 0
    /\ life = "ready"
    /\ g = NoRecord
    /\ modules_dir \in BOOLEAN
    /\ listing \in SUBSET EntryPool
    /\ ~modules_dir => listing = {}
    /\ sup = NoSupervisor

\* One call of get_module_files; reply notes whether the directory was there.
ScanDirectory ==
    /\ current_modules' = ScanListing(modules_dir, listing)
    /\ modules_dir' = DirAfterScan(modules_dir)
    /\ reply' = <<"scan", modules_dir>>
    /\ UNCHANGED << envVars, botVars, cpc, ctodo, cop, kpc, ktodo, kop, counts, h,
                    settled, budget, life, g, listing, sup >>

NextScan == ScanDirectory

SpecScan == InitScan /\ [][NextScan]_vars

\* ------------------------------------------------------------- round trip
\* load_extension and unload_extension run to their end, the hooks of the
\* module returning without raising.
LoadDone(L, n) ==
    LET r == LoadBegin(L, n, "none")
    IN  IF r.out = "suspended" THEN LoadResume(r.L, n, "none") ELSE r

UnloadDone(L, n) ==
    LET r == UnloadBegin(L, n)
    IN  IF r.out = "suspended" THEN UnloadResume(r.L, n) ELSE r

\* What a load leaves behind: the registered cogs, the loaded-id set and the
\* keys of the handle registry.
Registered(L, loaded) == [cogs |-> L.cogs, loaded |-> loaded, keys |-> DOMAIN L.mods]

\* A ready host between two cycles with any set of loaded extensions; the
\* handle registry may still hold the handles of extensions unloaded before.
InitRound ==
    /\ files \in SUBSET Stems
    /\ mtime = [s \in Stems |-> IF s \in files THEN 1 ELSE 0]
    /\ now = 1
    /\ config \in Configs
    /\ loaded_modules \in SUBSET Stems
    /\ \E K \in SUBSET Stems :
          /\ loaded_modules \subseteq K
          /\ modules = [x \in {ModuleId(s) : s \in K} |->
                            CHOOSE s \in K : ModuleId(s) = x]
    /\ last_module_check = 1
    /\ extensions = loaded_modules
    /\ cogs = loaded_modules
    /\ cpc = "idle"
    /\ current_modules = {}
    /\ ctodo = {}
    /\ cop = NoOp
    /\ kpc = "idle"
    /\ ktodo = {}
    /\ kop = NoOp
    /\ counts = [ok |-> 0, err |-> 0]
    /\ reply = <<"none">>
    /\ h = NoHistory
    /\ settled = [s \in Stems |-> "no"]
    /\ budget = 0
    /\ life = "ready"
    /\ g = NoRecord
    /\ modules_dir = TRUE
    /\ listing = {}
    /\ sup = NoSupervisor

\* One iteration of the loading loop of check_modules for a file that is in
\* the directory and not in loaded_modules.  reply follows one id through
\* load, unload, load and keeps what its first load left behind.
RoundLoad(s) ==
    /\ s \in modules_to_load(get_module_files, loaded_modules)
    /\ reply[1] = "none" \/ (reply[1] = "unloaded" /\ reply[2] = s)
    /\ LET r == LoadDone(Lib, s)
           loaded == IF r.out = "ok" THEN loaded_modules \cup {s} ELSE loaded_modules
       IN  /\ SetLib(r.L)
           /\ loaded_modules' = loaded
           /\ reply' = IF reply[1] = "none"
                       THEN <<"loaded", s, Registered(r.L, loaded)>>
                       ELSE <<"again", s, reply[3]>>
    /\ UNCHANGED << hostVars, envVars, last_module_check, cycVars, kpc, ktodo, kop, counts,
                    h, settled, budget, life, g >>

\* One iteration of the unloading loop for the id that was loaded and whose
\* file is gone.
RoundUnload(s) ==
    /\ s \in loaded_modules \ get_module_files
    /\ reply[1] = "loaded" /\ reply[2] = s
    /\ LET r == UnloadDone(Lib, s)
       IN  /\ SetLib(r.L)
           /\ loaded_modules' = IF r.out = "ok" THEN loaded_modules \ {s}
                                                ELSE loaded_modules
    /\ reply' = <<"unloaded", s, reply[3]>>
    /\ UNCHANGED << hostVars, envVars, last_module_check, cycVars, kpc, ktodo, kop, counts,
                    h, settled, budget, life, g >>

NextRound ==
    \/ \E s \in Stems : AddFile(s)
    \/ \E s \in Stems : RemoveFile(s)
    \/ \E s \in Stems : RoundLoad(s)
    \/ \E s \in Stems : RoundUnload(s)

SpecRound == InitRound /\ [][NextRound]_vars

\* --------------------------------------------------------------- supervisor
\* How a run of main.py ends:
\*   shutdown    = the operator's shutdown command closed the bot, so
\*                 bot.start returned;
\*   no_token    = no token is configured: main logs the error and returns;
\*   start_error = bot.start raised an Exception: main logs it, closes the
\*                 bot and returns;
\*   crash       = the process died outside that try (an error before it, a
\*                 signal, an error in the handler itself).
Endings == {"shutdown", "no_token", "start_error", "crash"}

\* Where main.py can end in each way: before the token is looked up
\* ("setup"), inside bot.start before the host is connected ("start"), or
\* while the bot is running ("run").
CanEnd(stage, ending) ==
    CASE ending = "no_token"    -> stage = "setup"
      [] ending = "start_error" -> stage \in {"start", "run"}
      [] ending = "shutdown"    -> stage = "run"
      [] ending = "crash"       -> TRUE

\* The exit code of the process: main returning ends it with 0.
ExitCode(ending) == IF ending = "crash" THEN 1 ELSE 0

\* run.py main before its loop; ended lists how the runs so far ended.
StartSupervisor ==
    [pc |-> "spawn", stage |-> "none", runs |-> 0, returncode |-> 0, ended |-> << >>,
     stopped |-> "no"]

InitSupervisor ==
    /\ files = {}
    /\ mtime = [s \in Stems |-> 0]
    /\ now = 1
    /\ config \in Configs
    /\ modules = [x \in {} |-> "none"]
    /\ loaded_modules = {}
    /\ last_module_check = InitialBaseline
    /\ extensions = {}
    /\ cogs = {}
    /\ cpc = "boot"
    /\ current_modules = {}
    /\ ctodo = {}
    /\ cop = NoOp
    /\ kpc = "idle"
    /\ ktodo = {}
    /\ kop = NoOp
    /\ counts = [ok |-> 0, err |-> 0]
    /\ reply = <<"none">>
    /\ h = NoHistory
    /\ settled = [s \in Stems |-> "no"]
    /\ budget = 0
    /\ life = "setup"
    /\ g = NoRecord
    /\ modules_dir = TRUE
    /\ listing = {}
    /\ sup = StartSupervisor

SupFrame ==
    UNCHANGED << modules_dir, listing, envVars, botVars, cycVars, cmdVars, h, settled,
                 budget, life, g >>

\* subprocess.Popen([sys.executable, "main.py"]) starts a bot process.
Spawn ==
    /\ sup.pc = "spawn"
    /\ sup.runs < MaxRuns
    /\ sup' = [sup EXCEPT !.pc = "child", !.stage = "setup", !.runs = @ + 1]
    /\ SupFrame

\* main.py found a token and calls bot.start.
ChildStart ==
    /\ sup.pc = "child"
    /\ sup.stage = "setup"
    /\ sup' = [sup EXCEPT !.stage = "start"]
    /\ SupFrame

\* The bot of the child process is connected and running.
ChildRun ==
    /\ sup.pc = "child"
    /\ sup.stage = "start"
    /\ sup' = [sup EXCEPT !.stage = "run"]
    /\ SupFrame

\* Popen raises: the error is printed and the loop sleeps.
SpawnRaises ==
    /\ sup.pc = "spawn"
    /\ sup' = [sup EXCEPT !.pc = "sleep"]
    /\ SupFrame

\* process.wait() returns.  Exit code 0 is taken for a clean shutdown and
\* ends the loop; any other code makes the loop sleep and start again.
ChildExit(ending) ==
    /\ sup.pc = "child"
    /\ CanEnd(sup.stage, ending)
    /\ sup' = [sup EXCEPT !.returncode = ExitCode(ending),
                          !.stage = "none",
                          !.ended = Append(@, ending),
                          !.pc = IF ExitCode(ending) = 0 THEN "done" ELSE "sleep",
                          !.stopped = IF ExitCode(ending) = 0 THEN "exit" ELSE @]
    /\ SupFrame

\* time.sleep(5) returns: the next iteration of the loop.
Wake ==
    /\ sup.pc = "sleep"
    /\ sup' = [sup EXCEPT !.pc = "spawn"]
    /\ SupFrame

\* KeyboardInterrupt in the loop: the process is terminated, the loop left.
Interrupt ==
    /\ sup.pc \in {"spawn", "child", "sleep"}
    /\ sup' = [sup EXCEPT !.pc = "done", !.stage = "none", !.stopped = "interrupt"]
    /\ SupFrame

NextSupervisor ==
    \/ Spawn
    \/ SpawnRaises
    \/ ChildStart
    \/ ChildRun
    \/ \E ending \in Endings : ChildExit(ending)
    \/ Wake
    \/ Interrupt

SpecSupervisor == InitSupervisor /\ [][NextSupervisor]_vars

\* ------------------------------------------------- writes to loaded sources
\* The source of a loaded extension is written again while none of its own
\* operations is suspended.  The file is stamped with the current time, which
\* is later than the moment the baseline was last recorded.
Write(s) ==
    /\ s \in files
    /\ s \in loaded_modules \cap extensions
    /\ cop.name # s
    /\ now > last_module_check
    /\ FsEvent
    /\ mtime' = [mtime EXCEPT ![s] = now]
    /\ settled' = [settled EXCEPT ![s] = "no"]
    /\ g' = [g EXCEPT !.written = @ \cup {s}]
    /\ UNCHANGED << hostVars, life, files, now, config, botVars, cycVars, cmdVars, h >>

\* The startup and the detection task, next to sources that stay in the
\* directory and are written from time to time.
NextLost == Tick \/ (\E s \in Stems : Write(s)) \/ Startup \/ Cycle

SpecLost == Init /\ [][NextLost]_vars

\* ------------------------------------------------------- unbounded waits
\* The cog_load hook awaited inside load_extension never returns.  The
\* loading loops await load_extension directly, under no deadline, so the
\* suspended call is never resumed.
Hang ==
    /\ cpc \in {"autoload", "load"}
    /\ cop.kind = "load"
    /\ cop' = [cop EXCEPT !.kind = "hung"]
    /\ UNCHANGED << hostVars, envVars, botVars, cpc, current_modules, ctodo, cmdVars, h,
                    settled, budget, life, g >>

\* The startup and the detection task with hooks that may never return.
NextHang == Environment \/ Startup \/ Cycle \/ Hang

\* The event loop runs a task whenever it can take a step.
SpecHang == Init /\ [][NextHang]_vars /\ WF_vars(Startup \/ Cycle)

Next == Environment \/ Startup \/ Cycle \/ Command \/ Shutdown

Spec == Init /\ [][Next]_vars

\* ------------------------------------------------------------ properties
\* The detection cycle is between its scan and its baseline assignment.
CycleInFlight == cpc \in {"load", "unload", "reload"}

\* The command is between its start and its reply.
CmdInFlight == kpc \in {"single", "all"}

\* The three loops of the cycle are over; only the baseline is left to record.
CycleAtEnd == cpc = "reload" /\ ctodo = {} /\ cop = NoOp

\* The loading loop of the cycle is over.
LoadLoopAtEnd == cpc = "load" /\ ctodo = {} /\ cop = NoOp

\* Nothing raised in the running cycle.
CycleClean == h.rLoad = {} /\ h.rUnload = {} /\ h.rReload = {}

\* No extension operation is suspended in either task.
Quiescent == cop = NoOp /\ kop = NoOp

\* C1: the detection cycle and the operator's reload command are mutually
\* exclusive: the command is never executing while a cycle is in flight.
C1_MutualExclusion == ~(CycleInFlight /\ CmdInFlight)

\* C2: at the end of a detection cycle in which nothing raised, the loaded-id
\* set is the scan result filtered by the enablement policy.
C2_CycleLoadsEnabledScan ==
    (CycleAtEnd /\ CycleClean) =>
        loaded_modules = {s \in current_modules : enabled(ModuleId(s))}

\* C3: a deny-listed id is never in the loaded-id set nor registered with the
\* command surface.
C3_DenyListedNeverLoaded ==
    \A s \in loaded_modules \cup cogs : ModuleId(s) \notin config.disabled

\* C4: an extension that was loaded when the cycle started and whose source
\* was absent from the cycle's scan is out of the loaded-id set when the
\* cycle ends.
C4_RemovedIsUnloaded ==
    CycleAtEnd => (h.startLoaded \ current_modules) \cap loaded_modules = {}

\* C5: an id whose unload raised during the cycle is nevertheless removed
\* from the loaded-id set in that cycle.
C5_UnloadFailureStillRemoves ==
    CycleAtEnd => h.rUnload \cap loaded_modules = {}

\* C6: a cycle reloads a loaded extension whose source stays present exactly
\* once if the source's modification time is above the baseline, and never
\* reloads an extension a cycle has examined since its last modification.
C6_ReloadOncePerModification ==
    /\ h.again = {}
    /\ CycleAtEnd =>
         \A s \in h.startLoaded \cap current_modules :
            settled[s] # "no" =>
               (IsModified(mtime[s], last_module_check) <=> s \in h.didReload)

\* C6 witness: a cycle with a baseline recorded by an earlier cycle ends
\* having reloaded, successfully and once, an extension whose source was
\* modified after that baseline, and having left alone another loaded
\* extension that it examined and whose source was not modified.
C6_Witness ==
    /\ CycleAtEnd
    /\ last_module_check > InitialBaseline
    /\ \E s \in h.startLoaded \cap current_modules :
          /\ s \in h.didReload \ h.rReload
          /\ settled[s] = "reloaded"
          /\ IsModified(mtime[s], last_module_check)
          /\ s \in extensions
    /\ \E u \in h.startLoaded \cap current_modules :
          /\ u \notin h.didReload
          /\ settled[u] # "no"
          /\ u \in files

\* C7: when the loading loop of a cycle is over, an extension whose load
\* raised is out of the loaded-id set, of the handle registry and of the
\* command surface, and every other extension the loop visited is loaded.
C7_LoadFailureIsolated ==
    LoadLoopAtEnd =>
        /\ \A a \in h.rLoad :
              /\ a \notin loaded_modules
              /\ ModuleId(a) \notin DOMAIN modules
              /\ a \notin cogs
        /\ \A b \in h.didLoad \ h.rLoad : b \in loaded_modules

\* C8: the ids a cycle loaded, unloaded and reloaded are pairwise disjoint.
C8_OneOperationPerId ==
    CycleAtEnd =>
        /\ h.didLoad \cap h.didUnload = {}
        /\ h.didLoad \cap h.didReload = {}
        /\ h.didUnload \cap h.didReload = {}

\* C9: while no lifecycle operation is in flight, the handle registry holds a
\* handle for an extension exactly if the extension is in the loaded-id set.
C9_HandleIffLoaded ==
    Quiescent =>
        \A s \in Stems : (ModuleId(s) \in DOMAIN modules) <=> (s \in loaded_modules)

\* C10: while no lifecycle operation is in flight, the handle of every loaded
\* extension is stored in the handle registry under the stem of its file.
C10_KeyIsFileStem ==
    Quiescent =>
        \A s \in loaded_modules : s \in DOMAIN modules /\ modules[s] = s

\* C11: after close() was called while a load or an unload of the detection
\* cycle was in flight, the extension of that call is registered with the
\* command surface exactly if its id is in the loaded-id set: the call was
\* completed, not abandoned at its suspension point.
C11_InFlightCompletes ==
    (life = "closing" /\ g.aborted.kind \in {"load", "unload"}) =>
        (g.aborted.name \in cogs <=> g.aborted.name \in loaded_modules)

\* C12: a detection cycle begins only while the host is ready: never before
\* readiness was signalled and never after close() was called.
C12_CyclesOnlyWhileReady ==
    [][(cpc # "load" /\ cpc' = "load") => life = "ready"]_vars

\* C12 witness: the host was closed after a detection cycle had run and
\* recorded its baseline, and the loop task is cancelled.
C12_Witness ==
    /\ life = "closed"
    /\ cpc = "cancelled"
    /\ last_module_check > InitialBaseline

\* C13: the reload command answers not-found only for a name that is unknown:
\* a name in the loaded-id set is never reported as not found (its reload is
\* attempted instead).
C13_LoadedNameIsReloaded ==
    [][(kpc = "idle" /\ kpc' = "replied" /\ reply'[1] = "not_found")
          => reply'[2] \notin loaded_modules]_vars

\* C14: the counts reload-all reports add up to the number of ids the
\* registry knew when the command was invoked, every one of those ids was
\* attempted, and the success count is the number of reloads that returned.
C14_ReloadAllCounts ==
    (kpc = "replied" /\ reply[1] = "complete") =>
        /\ g.ok \cup g.err = g.known
        /\ reply[2] + reply[3] = Cardinality(g.known)
        /\ reply[2] = Cardinality(g.ok)

\* C14 witness: reload-all has reported on two ids, one reload returned and
\* one raised.
C14_Witness ==
    /\ kpc = "replied"
    /\ reply[1] = "complete"
    /\ Cardinality(g.known) = 2
    /\ reply[2] = 1
    /\ reply[3] = 1

\* C15: a detection cycle ends only after every id of its loops was
\* processed, and it ends by recording the current time as the baseline.
C15_CycleAlwaysCompletes ==
    [][(CycleInFlight /\ cpc' = "idle") =>
          (ctodo = {} /\ last_module_check' = now)]_vars

\* C16: an extension whose load raised in the startup or cycle before, whose
\* source is in the scan of this cycle and which is not loaded, is attempted
\* again by the loading loop of this cycle.
C16_FailedLoadRetried ==
    LoadLoopAtEnd =>
        \A s \in (g.loadFailed \cap current_modules) \ h.startLoaded : s \in h.didLoad

\* C16 witness: in a cycle that follows a completed cycle, the loading loop
\* has attempted again, and seen fail again, an extension whose load had
\* raised in that cycle before.
C16_Witness ==
    /\ LoadLoopAtEnd
    /\ last_module_check > InitialBaseline
    /\ \E s \in g.loadFailed \cap current_modules :
          s \notin h.startLoaded /\ s \in h.rLoad

\* C17: an extension whose reload raised in the cycle before, which is still
\* loaded and whose source is in the scan, is reloaded by this cycle.
C17_FailedReloadRetried ==
    CycleAtEnd =>
        \A s \in g.reloadFailed \cap current_modules \cap h.startLoaded :
            s \in files => s \in h.didReload

\* C19: when a reload raised in the reload command, the result the command
\* sends reports the failure and names an extension whose reload failed.
C19_FailureIsReported ==
    (kpc = "replied" /\ g.err # {}) =>
        (reply[1] = "error" /\ reply[2] \in g.err)

\* C20: an extension the cycle asked to reload while it was not registered
\* (its unload step cannot succeed) was loaded all the same: with its source
\* present and no extension code raising in the cycle, it is registered when
\* the cycle ends.
C20_ReloadLoadsAfterFailedUnload ==
    (CycleAtEnd /\ kpc = "idle") =>
        \A s \in g.notLoaded \cap files : s \in extensions

\* C18: for every id and every pair of allow-list and deny-list, the
\* enablement policy answers false for an id in the deny-list; otherwise true
\* if the allow-list is empty or holds the id; otherwise false.  An id in
\* both lists is disabled: the deny-list takes precedence.
C18_EnablementPolicy ==
    reply[1] = "check" =>
        LET id == reply[2]
            answer == reply[3]
        IN  /\ id \in config.disabled => answer = FALSE
            /\ id \in config.enabled \cap config.disabled => answer = FALSE
            /\ (id \notin config.disabled /\ config.enabled = {}) => answer = TRUE
            /\ (id \notin config.disabled /\ id \in config.enabled) => answer = TRUE
            /\ (id \notin config.disabled /\ config.enabled # {}
                                           /\ id \notin config.enabled) => answer = FALSE

\* C18 witness: the policy was asked about an id that is in both lists and
\* answered that it is disabled.
C18_Witness ==
    /\ reply[1] = "check"
    /\ reply[2] \in config.enabled \cap config.disabled
    /\ reply[3] = FALSE

\* C21: configuration is read once, so two successive answers of the policy
\* for the same id agree, whatever Config.set or Config.reload did between.
C21_ConfigReadOnce ==
    [][(reply[1] = "check" /\ reply'[1] = "check" /\ reply'[2] = reply[2])
          => reply'[3] = reply[3]]_vars

\* C22: no operation blocks indefinitely, so every detection cycle that was
\* started eventually completes.
C22_CycleEventuallyCompletes == CycleInFlight ~> (cpc = "idle")

\* C23: load(id), unload(id), load(id) leaves the same registered cogs, the
\* same loaded-id set and the same handle-registry keys as the first load(id)
\* alone.
C23_RoundTrip ==
    reply[1] = "again" => Registered(Lib, loaded_modules) = reply[3]

\* C23 witness: slash was loaded, unloaded and loaded again next to a loaded
\* admin; its cog is registered and its handle is under test_commands.
C23_Witness ==
    /\ reply[1] = "again"
    /\ reply[2] = "slash"
    /\ cogs = {"admin", "slash"}
    /\ loaded_modules = {"admin", "slash"}
    /\ "test_commands" \in DOMAIN modules

\* C26: the first detection cycle reloads no extension: those loaded by the
\* startup were not modified since, and the others were loaded by the cycle.
C26_FirstCycleReloadsNothing ==
    (CycleAtEnd /\ last_module_check = InitialBaseline /\ budget = 0) =>
        h.didReload = {}

\* C27: no modification is lost: between two cycles, a loaded extension
\* whose source was written since it was last loaded or reloaded has a
\* modification time the next cycle will find above the baseline.
C27_NoModificationLost ==
    (cpc = "idle" /\ life = "ready") =>
        \A s \in g.written \cap files \cap loaded_modules :
            IsModified(mtime[s], last_module_check)

\* C28: every step of the operator's reload command, single or reload-all,
\* whether reload_extension returned or raised, leaves loaded_modules and
\* last_module_check as they were.
C28_CommandFrame ==
    [][cmdVars' # cmdVars => UNCHANGED << loaded_modules, last_module_check >>]_vars

\* C28 witness: the single-module command replied that the reload of admin
\* raised, and admin is in loaded_modules.
C28_Witness ==
    /\ kpc = "replied"
    /\ reply = <<"error", "admin">>
    /\ "admin" \in loaded_modules

\* C29: a bot run that ended because the process crashed or because
\* bot.start raised is followed by a new bot process: the supervisor does
\* not take the end of such a run for a clean shutdown and stop.
C29_RestartOnEveryCrash ==
    (sup.pc = "done" /\ sup.stopped = "exit") =>
        sup.ended[Len(sup.ended)] \notin {"start_error", "crash"}

\* C24: a scan of a missing directory returns the empty set, after any scan
\* the directory exists, and no scan changes the loaded-id set, the handle
\* registry or the reload baseline.
C24_ScanFrame ==
    [][reply'[1] = "scan" =>
          /\ ~modules_dir => current_modules' = {}
          /\ modules_dir'
          /\ UNCHANGED << loaded_modules, modules, last_module_check >>]_vars

\* C24 witness: a scan found no directory, returned the empty set and left
\* the directory behind, next to a loaded-id set that is not empty.
C24_Witness ==
    /\ reply = <<"scan", FALSE>>
    /\ current_modules = {}
    /\ modules_dir
    /\ loaded_modules # {}

\* C25: the ids a scan returns are exactly the n for which the directory
\* holds an entry n + ".py" whose name does not begin with "_".
C25_ScanIds ==
    reply[1] = "scan" =>
        LET Candidates ==
                UNION { { SubSeq(e, 1, k) : k \in 0..Len(e) } : e \in EntryPool }
        IN  /\ current_modules \subseteq Candidates
            /\ \A n \in Candidates :
                  n \in current_modules <=>
                     /\ (n \o PySuffix) \in listing
                     /\ Head(n \o PySuffix) # "_"

\* C25 witness: a scan of a directory holding a.py, _a.py, a.pyc and a.txt
\* returned the id a and not the id _a.
C25_Witness ==
    /\ reply[1] = "scan"
    /\ { <<"a", ".", "p", "y">>, <<"_", "a", ".", "p", "y">>,
          <<"a", ".", "p", "y", "c">>, <<"a", ".", "t", "x", "t">> } \subseteq listing
    /\ <<"a">> \in current_modules
    /\ <<"_", "a">> \notin current_modules

====
